---- MODULE Spec2Model ----
(***************************************************************************)
(* Session coordination layer of the Resistance game server (part_001,   *)
(* src/unnamed/part_001): POST /join (createGame, joinGame), the socket    *)
(* handlers authRequest / changeName / removalRequest (authUser,           *)
(* changeName, removePlayer, getGameStatus) and the periodic reaper        *)
(* sweep, all running against one shared MongoDB store.                    *)
(*                                                                         *)
(* Every `await` of the source is a point where other handlers may run:    *)
(* each action below is one store operation together with the synchronous  *)
(* code that follows it up to the next `await`.                            *)
(***************************************************************************)
EXTENDS Integers, Sequences, FiniteSets, TLC

\* ------------------------------------------------------------- bounds
\* concurrent POST /join requests
NumReqs == 2
\* concurrently running socket event handlers
NumTasks == 2
\* socket connections
NumSocks == 2
\* the clock stops here
MaxTime == 2
\* operations (requests, socket handlers, sweep) in flight at the same time
MaxInFlight == 2
\* player documents in the store, over all sessions, while only requests run
MaxDocs == 3
\* the same while socket handlers or the sweep run as well
FewDocs == 2
\* registry documents in the store
MaxSessions == 2
\* the game codes Math.random draws and clients present, from minGameCode up
NumCodes == 2

\* ------------------------------------------------- program constants
\* part_001:15-16
minGameCode == 0
maxGameCode == 1000000
\* part_001:61
maxGames == 100000
\* part_001:99, `validationDocs[3].length >= 10`, scaled to 2
maxPlayers == 2
\* part_001:257
maxNameLength == 20
\* part_001:293, the clock counting in units of it
msToLive == 1
\* `playerToRemove.gameCode` / `player.socketClientId` when the field is
\* absent: the driver sends `undefined` as null, which equals no stored value
Undefined == -1

Reqs == 1..NumReqs
Tasks == 1..NumTasks
Socks == 1..NumSocks
Codes == minGameCode..(minGameCode + NumCodes - 1)
Names == {"a", "b"}
LongName == "aaaaaaaaaaaaaaaaaaaaa"
NameInputs == Names \cup {"", LongName}
\* the keys randomBytesHexAsync issues, and the keys a client may present
IssuedKeys == {"k1"}
Keys == IssuedKeys \cup {"k2"}

\* crypto.createHash('sha256').update(key).digest('hex'): a string, injective
\* on the keys modelled and never equal to the key itself
Hash(key) == "sha256:" \o key

\* ------------------------------------------------- collection helpers
\* a filter { field: value, ... } matches a document that has every field of
\* the filter with the filter's value
Matches(doc, query) ==
  \A f \in DOMAIN query : f \in DOMAIN doc /\ doc[f] = query[f]

\* index of the first document of coll that matches, 0 for null
FindOne(coll, query) ==
  LET I == {i \in 1..Len(coll) : Matches(coll[i], query)}
  IN  IF I = {} THEN 0 ELSE CHOOSE i \in I : \A j \in I : i <= j

RemoveAt(coll, i) == [j \in 1..(Len(coll) - 1) |-> IF j < i THEN coll[j] ELSE coll[j + 1]]

DeleteOne(coll, query) ==
  LET i == FindOne(coll, query) IN IF i = 0 THEN coll ELSE RemoveAt(coll, i)

\* { $set: set } applied to a document
SetFields(doc, set) ==
  [f \in DOMAIN doc \cup DOMAIN set |-> IF f \in DOMAIN set THEN set[f] ELSE doc[f]]

UpdateOne(coll, query, set) ==
  LET i == FindOne(coll, query)
  IN  IF i = 0 THEN coll ELSE [coll EXCEPT ![i] = SetFields(coll[i], set)]

\* findOne({ name: name }) on a players collection
FindByName(coll, name) == FindOne(coll, [name |-> name])

\* --------------------------------------------------------------- state
VARIABLES
  games,    \* db 'games', collection 'games': number of {code} documents per code
  status,   \* db 'game-<code>', collection 'status': sequence of documents
  players,  \* db 'game-<code>', collection 'players': sequence of documents
  now,      \* the clock read by `new Date()`
  req,      \* the POST /join requests
  task,     \* the socket event handlers in flight
  conn,     \* per connection: the closure variable `player` (with gameDb, roomAll)
  rooms,    \* per connection: the rooms it was admitted to by socket.join
  reaper,   \* the setInterval sweep
  out       \* the response sent by the step just taken: res.json(...) or socket.emit(...)

vars == <<games, status, players, now, req, task, conn, rooms, reaper, out>>

IdleReq == [pc |-> "idle", name |-> "", gameCode |-> Undefined, pend |-> {},
            date |-> 0, len |-> 0]

\* a handler's locals: gameCode is the session its gameDb names, name and arg
\* the event's payload, code2 the payload's gameCode, hashedKey and sockId the
\* fields of the player document it read, stale whether the `player` object
\* it holds has been replaced
IdleTask == [pc |-> "idle", kind |-> "none", sock |-> 0, gameCode |-> Undefined,
             name |-> "", arg |-> "", code2 |-> Undefined, hashedKey |-> <<>>,
             sockId |-> Undefined, pend |-> {}, stale |-> FALSE]

NoPlayer == [authenticated |-> FALSE, name |-> "", gameCode |-> Undefined]

IdleReaper == [pc |-> "idle", games |-> [c \in Codes |-> 0], toRead |-> {},
               statuses |-> [c \in Codes |-> <<>>], currentDate |-> 0,
               drops |-> [c \in Codes |-> 0], dels |-> [c \in Codes |-> 0]]

NoOut == [op |-> "none", to |-> 0, res |-> "none"]

Init ==
  /\ games = [c \in Codes |-> 0]
  /\ status = [c \in Codes |-> <<>>]
  /\ players = [c \in Codes |-> <<>>]
  /\ now = 0
  /\ req = [r \in Reqs |-> IdleReq]
  /\ task = [t \in Tasks |-> IdleTask]
  /\ conn = [s \in Socks |-> NoPlayer]
  /\ rooms = [s \in Socks |-> {}]
  /\ reaper = IdleReaper
  /\ out = NoOut

InFlight ==
  Cardinality({r \in Reqs : req[r].pc # "idle"})
  + Cardinality({t \in Tasks : task[t].pc # "idle"})
  + (IF reaper.pc = "idle" THEN 0 ELSE 1)

CanStart == InFlight < MaxInFlight

TotalGames == LET Sum[S \in SUBSET Codes] ==
                    IF S = {} THEN 0
                    ELSE LET c == CHOOSE c \in S : TRUE IN games[c] + Sum[S \ {c}]
              IN  Sum[Codes]

TotalDocs == LET Sum[S \in SUBSET Codes] ==
                   IF S = {} THEN 0
                   ELSE LET c == CHOOSE c \in S : TRUE IN Len(players[c]) + Sum[S \ {c}]
             IN  Sum[Codes]

\* the workload bounds: a request is taken up only while the store is small
ReqsInFlight == Cardinality({r \in Reqs : req[r].pc # "idle"})
CanJoin(maxDocs) == CanStart /\ TotalDocs + ReqsInFlight < maxDocs
CanCreate(maxDocs) == CanJoin(maxDocs) /\ TotalGames + ReqsInFlight < MaxSessions

\* a new request or event takes the first free slot
FirstIdle(pcs, i) == pcs[i].pc = "idle" /\ \A j \in 1..(i - 1) : pcs[j].pc # "idle"

\* a response is on its way to the client: res.json / socket.emit return
\* before the handler's next store operation runs
Deliver ==
  /\ out # NoOut
  /\ out' = NoOut
  /\ UNCHANGED <<games, status, players, now, req, task, conn, rooms, reaper>>

Quiet == out = NoOut

\* the clock advances
Tick ==
  /\ Quiet
  /\ now < MaxTime
  /\ now' = now + 1
  /\ UNCHANGED <<games, status, players, req, task, conn, rooms, reaper>>
  /\ out' = NoOut

\* a round starts: the rule engine, which is outside this code, sets playing
\* and stamps the change ("Significant changes are creating game, strating
\* round, ending round", part_001:74)
StartRound(c) ==
  /\ Quiet
  /\ status[c] # <<>>
  /\ status[c][1].playing = FALSE
  /\ players[c] # <<>>
  /\ status' = [status EXCEPT ![c][1] = [playing |-> TRUE, lastSignificantChange |-> now]]
  /\ out' = NoOut
  /\ UNCHANGED <<games, players, now, req, task, conn, rooms, reaper>>

\* ------------------------------------------------------- POST /join
ReqDone(r, res) ==
  /\ req' = [req EXCEPT ![r] = IdleReq]
  /\ out' = [op |-> "join", to |-> r, res |-> res]

\* part_001:255-259
NameError(playerName) ==
  IF playerName = "" THEN "MustEnterName"
  ELSE IF Len(playerName) > maxNameLength THEN "NameTooLong"
  ELSE "none"

\* part_001:262-266
CodeOutOfRange(gameCode) == gameCode < minGameCode \/ gameCode >= maxGameCode

\* the in-progress check left out
NeverInProgress(doc) == FALSE

\* part_001:94: `validationDocs[1].playing !== false`
InProgress(doc) == doc.playing # FALSE

\* joinGame, part_001:86-101: the four reads and the checks on them
JoinCheck(name, gameCode) ==
  IF games[gameCode] = 0 THEN "NoGame"
  ELSE IF status[gameCode] = <<>> THEN "Unexpected"
  ELSE IF InProgress(status[gameCode][1]) THEN "InProgress"
  ELSE IF FindByName(players[gameCode], name) # 0 THEN "NameTaken"
  ELSE IF Len(players[gameCode]) >= maxPlayers THEN "Full"
  ELSE "none"

JoinRead(r, name, gameCode) ==
  LET err == JoinCheck(name, gameCode)
  IN  IF err # "none"
      THEN ReqDone(r, err)
      ELSE /\ req' = [req EXCEPT ![r] = [IdleReq EXCEPT !.pc = "join_insert",
                        !.name = name, !.gameCode = gameCode,
                        !.len = Len(players[gameCode])]]
           /\ out' = NoOut

\* POST /join with a gameCode: validation, then joinGame's reads
ReqJoin(r, playerName, gameCode, maxDocs) ==
  /\ Quiet
  /\ FirstIdle(req, r)
  /\ CanJoin(maxDocs)
  /\ IF NameError(playerName) # "none" THEN ReqDone(r, NameError(playerName))
     ELSE IF CodeOutOfRange(gameCode) THEN ReqDone(r, "CodeOutOfRange")
     ELSE JoinRead(r, playerName, gameCode)
  /\ UNCHANGED <<games, status, players, now, task, conn, rooms, reaper>>

\* POST /join without a gameCode: validation, then createGame's countDocuments
ReqCreate(r, playerName, maxDocs) ==
  /\ Quiet
  /\ FirstIdle(req, r)
  /\ CanCreate(maxDocs)
  /\ IF NameError(playerName) # "none" THEN ReqDone(r, NameError(playerName))
     ELSE IF TotalGames > maxGames THEN ReqDone(r, "Unexpected")
     ELSE /\ req' = [req EXCEPT ![r] = [IdleReq EXCEPT !.pc = "create_draw",
                       !.name = playerName]]
          /\ out' = NoOut
  /\ UNCHANGED <<games, status, players, now, task, conn, rooms, reaper>>

\* createGame's do-while: candidates are drawn until findOne finds none; the
\* two inserts are then issued together, `new Date()` being read at that point
CreateDraw(r, gameCode) ==
  /\ Quiet
  /\ req[r].pc = "create_draw"
  /\ games[gameCode] = 0
  /\ req' = [req EXCEPT ![r].pc = "create_insert", ![r].gameCode = gameCode,
               ![r].pend = {"status", "games"}, ![r].date = now]
  /\ UNCHANGED <<games, status, players, now, task, conn, rooms, reaper>>
  /\ out' = NoOut

CreateAdvance(r, done) ==
  IF req[r].pend \ {done} = {}
  THEN req' = [req EXCEPT ![r].pc = "join_read", ![r].pend = {}, ![r].date = 0]
  ELSE req' = [req EXCEPT ![r].pend = @ \ {done}]

CreateInsertStatus(r) ==
  /\ Quiet
  /\ req[r].pc = "create_insert"
  /\ "status" \in req[r].pend
  /\ status' = [status EXCEPT ![req[r].gameCode] =
                  Append(@, [playing |-> FALSE, lastSignificantChange |-> req[r].date])]
  /\ CreateAdvance(r, "status")
  /\ UNCHANGED <<games, players, now, task, conn, rooms, reaper>>
  /\ out' = NoOut

CreateInsertGame(r) ==
  /\ Quiet
  /\ req[r].pc = "create_insert"
  /\ "games" \in req[r].pend
  /\ games' = [games EXCEPT ![req[r].gameCode] = @ + 1]
  /\ CreateAdvance(r, "games")
  /\ UNCHANGED <<status, players, now, task, conn, rooms, reaper>>
  /\ out' = NoOut

\* joinGame's reads for the game just created
JoinCreated(r) ==
  /\ Quiet
  /\ req[r].pc = "join_read"
  /\ JoinRead(r, req[r].name, req[r].gameCode)
  /\ UNCHANGED <<games, status, players, now, task, conn, rooms, reaper>>

\* joinGame, part_001:103-116: the insert, with a fresh random key
JoinInsert(r, key) ==
  /\ Quiet
  /\ req[r].pc = "join_insert"
  /\ players' = [players EXCEPT ![req[r].gameCode] =
                   Append(@, [name |-> req[r].name, order |-> req[r].len + 1,
                              hashedKey |-> Hash(key), socketClientId |-> Undefined])]
  /\ ReqDone(r, "ok")
  /\ UNCHANGED <<games, status, now, task, conn, rooms, reaper>>

Requests(reqs, codes, maxDocs) ==
  \E r \in reqs :
    \/ \E n \in NameInputs : ReqCreate(r, n, maxDocs)
    \/ \E n \in NameInputs, c \in codes \cup {minGameCode - 1, maxGameCode} :
         ReqJoin(r, n, c, maxDocs)
    \/ \E c \in codes : CreateDraw(r, c)
    \/ CreateInsertStatus(r)
    \/ CreateInsertGame(r)
    \/ JoinCreated(r)
    \/ \E k \in IssuedKeys : JoinInsert(r, k)

\* ------------------------------------------------------ socket handlers
Emit(event, s, res) == out' = [op |-> event, to |-> s, res |-> res]

TaskDone(t) == task' = [task EXCEPT ![t] = IdleTask]

\* getGameStatus, part_001:156-179: what the status read yields
GameStatus(gameCode) ==
  IF status[gameCode] = <<>> THEN "error"
  ELSE IF ~status[gameCode][1].playing THEN "roster"
  ELSE "undefined"

\* roomAll.emit('gameStatus', await getGameStatus(gameDb)): the last step of
\* the authRequest, changeName and removalRequest handlers
BroadcastStatus(t) ==
  /\ Quiet
  /\ task[t].pc \in {"auth_status", "cn_status", "rm_status"}
  /\ Emit("gameStatus", task[t].gameCode, GameStatus(task[t].gameCode))
  /\ TaskDone(t)
  /\ UNCHANGED <<games, status, players, now, req, conn, rooms, reaper>>

\* authUser, part_001:119-127: the registry lookup
RecvAuth(t, s, gameCode, name, key) ==
  /\ Quiet
  /\ FirstIdle(task, t)
  /\ CanStart
  /\ IF games[gameCode] = 0
     THEN /\ Emit("myError", s, "NoGame")
          /\ UNCHANGED task
     ELSE /\ task' = [task EXCEPT ![t] = [IdleTask EXCEPT !.pc = "auth_find",
                         !.kind = "authRequest", !.sock = s, !.gameCode = gameCode,
                         !.name = name, !.arg = key]]
          /\ out' = NoOut
  /\ UNCHANGED <<games, status, players, now, req, conn, rooms, reaper>>

\* authUser, part_001:128-137: the player lookup
AuthFind(t) ==
  /\ Quiet
  /\ task[t].pc = "auth_find"
  /\ LET coll == players[task[t].gameCode]
         i == FindByName(coll, task[t].name)
     IN  IF i = 0
         THEN /\ Emit("myError", task[t].sock, "NotJoined")
              /\ TaskDone(t)
         ELSE /\ task' = [task EXCEPT ![t].pc = "auth_update",
                             ![t].hashedKey = coll[i].hashedKey]
              /\ out' = NoOut
  /\ UNCHANGED <<games, status, players, now, req, conn, rooms, reaper>>

\* the filter { name: authKey.name } in place of { code: <gameCode> }
AuthQueryByName(gameCode, name) == [name |-> name]

\* the filter of authUser's updateOne, part_001:121 and 138: the `query` of
\* the registry lookup, { code: <gameCode> }
AuthQuery(gameCode, name) == [code |-> gameCode]

\* the key compared without being hashed
KeyMatchesPlain(key, hashedKey) == key = hashedKey

\* part_001:143-145
KeyMatches(key, hashedKey) == Hash(key) = hashedKey

\* authUser, part_001:138-153, and the handler's assignments, part_001:339-343
AuthUpdate(t) ==
  /\ Quiet
  /\ task[t].pc = "auth_update"
  /\ LET s == task[t].sock
         gc == task[t].gameCode
     IN  /\ players' = [players EXCEPT ![gc] =
                UpdateOne(@, AuthQuery(gc, task[t].name), [socketClientId |-> s])]
         /\ IF KeyMatches(task[t].arg, task[t].hashedKey)
            THEN /\ conn' = [conn EXCEPT ![s] = [authenticated |-> TRUE,
                                name |-> task[t].name, gameCode |-> gc]]
                 /\ rooms' = [rooms EXCEPT ![s] = @ \cup {gc}]
                 /\ task' = [u \in Tasks |->
                       IF u = t THEN [task[t] EXCEPT !.pc = "auth_status"]
                       ELSE IF task[u].sock = s /\ task[u].kind = "changeName"
                            THEN [task[u] EXCEPT !.stale = TRUE]
                       ELSE task[u]]
                 /\ out' = NoOut
            ELSE /\ Emit("myError", s, "Unauthorized")
                 /\ TaskDone(t)
                 /\ UNCHANGED <<conn, rooms>>
  /\ UNCHANGED <<games, status, now, req, reaper>>

\* every socket handler but authRequest is the no-op of the transport for a
\* connection whose guard fails: nothing is emitted
Dropped(event, s) == out' = [op |-> "dropped", to |-> s, res |-> event]

\* the handlers' guard taken as passed by every connection
AlwaysAccepted(s) == TRUE

\* part_001:351 and 363: `if (player.authenticated)`
Accepted(s) == conn[s].authenticated

\* the blank-name check left out
NeverBlank(newName) == FALSE

\* part_001:184: `newName === ''`
IsBlank(newName) == newName = ""

\* the changeName handler, part_001:350-353, and changeName, part_001:181-190;
\* gameDb is undefined until an authRequest has succeeded
RecvChangeName(t, s, newName) ==
  /\ Quiet
  /\ FirstIdle(task, t)
  /\ CanStart
  /\ LET currentName == conn[s].name
         gc == conn[s].gameCode
         err == IF currentName = newName THEN "SameName"
                ELSE IF IsBlank(newName) THEN "BlankName"
                ELSE IF gc \notin Codes THEN "Unexpected"
                ELSE IF status[gc] = <<>> THEN "Unexpected"
                ELSE IF status[gc][1].playing THEN "InProgress"
                ELSE "none"
     IN  IF ~Accepted(s)
         THEN UNCHANGED task /\ Dropped("changeName", s)
         ELSE IF err # "none"
         THEN UNCHANGED task /\ Emit("myError", s, err)
         ELSE /\ task' = [task EXCEPT ![t] = [IdleTask EXCEPT !.pc = "cn_find",
                             !.kind = "changeName", !.sock = s, !.gameCode = gc,
                             !.name = currentName, !.arg = newName]]
              /\ out' = NoOut
  /\ UNCHANGED <<games, status, players, now, req, conn, rooms, reaper>>

\* changeName, part_001:191-195
CnFind(t) ==
  /\ Quiet
  /\ task[t].pc = "cn_find"
  /\ IF FindByName(players[task[t].gameCode], task[t].name) = 0
     THEN Emit("myError", task[t].sock, "PlayerMissing") /\ TaskDone(t)
     ELSE task' = [task EXCEPT ![t].pc = "cn_update"] /\ out' = NoOut
  /\ UNCHANGED <<games, status, players, now, req, conn, rooms, reaper>>

\* changeName, part_001:196-201, and the handler, part_001:353-355:
\* `player.name = ` writes the object the handler read `player` to be when
\* it began; gameDb and roomAll are read now
CnUpdate(t) ==
  /\ Quiet
  /\ task[t].pc = "cn_update"
  /\ LET s == task[t].sock
     IN  /\ players' = [players EXCEPT ![task[t].gameCode] =
                UpdateOne(@, [name |-> task[t].name], [name |-> task[t].arg])]
         /\ conn' = IF task[t].stale THEN conn
                    ELSE [conn EXCEPT ![s].name = task[t].arg]
         /\ task' = [task EXCEPT ![t].pc = "cn_status",
                                 ![t].gameCode = conn[s].gameCode]
         /\ Emit("nameChanged", s, "ok")
  /\ UNCHANGED <<games, status, now, req, rooms, reaper>>

\* the removalRequest handler, part_001:362-365, and removePlayer,
\* part_001:205-217
RecvRemoval(t, s, name, code2) ==
  /\ Quiet
  /\ FirstIdle(task, t)
  /\ CanStart
  /\ LET gc == conn[s].gameCode
         i == FindByName(players[gc], name)
         err == IF gc \notin Codes THEN "Unexpected"
                ELSE IF status[gc] = <<>> THEN "Unexpected"
                ELSE IF status[gc][1].playing THEN "InProgress"
                ELSE IF i = 0 THEN "NotInGame"
                ELSE "none"
     IN  IF ~Accepted(s)
         THEN UNCHANGED task /\ Dropped("removalRequest", s)
         ELSE IF err # "none"
         THEN UNCHANGED task /\ Emit("myError", s, err)
         ELSE /\ task' = [task EXCEPT ![t] = [IdleTask EXCEPT !.pc = "rm_delete",
                             !.kind = "removalRequest", !.sock = s, !.gameCode = gc,
                             !.name = name, !.code2 = code2,
                             !.sockId = players[gc][i].socketClientId]]
              /\ out' = NoOut
  /\ UNCHANGED <<games, status, players, now, req, conn, rooms, reaper>>

\* removePlayer, part_001:218
RmDelete(t) ==
  /\ Quiet
  /\ task[t].pc = "rm_delete"
  /\ players' = [players EXCEPT ![task[t].gameCode] =
                   DeleteOne(@, [name |-> task[t].name])]
  /\ task' = [task EXCEPT ![t].pc = "rm_find"]
  /\ out' = NoOut
  /\ UNCHANGED <<games, status, now, req, conn, rooms, reaper>>

\* removePlayer, part_001:219-220
RmFind(t) ==
  /\ Quiet
  /\ task[t].pc = "rm_find"
  /\ IF Len(players[task[t].gameCode]) = 0
     THEN task' = [task EXCEPT ![t].pc = "rm_destroy", ![t].pend = {"drop", "games"}]
     ELSE task' = [task EXCEPT ![t].pc = "rm_done"]
  /\ out' = NoOut
  /\ UNCHANGED <<games, status, players, now, req, conn, rooms, reaper>>

RmAdvance(t, done) ==
  IF task[t].pend \ {done} = {}
  THEN task' = [task EXCEPT ![t].pc = "rm_done", ![t].pend = {}]
  ELSE task' = [task EXCEPT ![t].pend = @ \ {done}]

\* removePlayer, part_001:222: gameDb.dropDatabase()
RmDrop(t) ==
  /\ Quiet
  /\ task[t].pc = "rm_destroy"
  /\ "drop" \in task[t].pend
  /\ status' = [status EXCEPT ![task[t].gameCode] = <<>>]
  /\ players' = [players EXCEPT ![task[t].gameCode] = <<>>]
  /\ RmAdvance(t, "drop")
  /\ out' = NoOut
  /\ UNCHANGED <<games, now, req, conn, rooms, reaper>>

\* deleteOne({ code: code }) on the registry
DeleteGame(code) ==
  IF code \in Codes /\ games[code] > 0
  THEN [games EXCEPT ![code] = @ - 1]
  ELSE games

\* removePlayer, part_001:223-225: the code is the payload's gameCode
RmDeleteGame(t) ==
  /\ Quiet
  /\ task[t].pc = "rm_destroy"
  /\ "games" \in task[t].pend
  /\ games' = DeleteGame(task[t].code2)
  /\ RmAdvance(t, "games")
  /\ out' = NoOut
  /\ UNCHANGED <<status, players, now, req, conn, rooms, reaper>>

\* removePlayer returns, part_001:228-231, and the handler goes on,
\* part_001:366-367. `io.to(id)` yields the namespace, whose `disconnect`
\* comes from the socket.io build in use: where it is no function the call
\* throws and the handler's catch answers the requester, otherwise
\* removedPlayer goes to the room
RmReturn(t) ==
  /\ Quiet
  /\ task[t].pc = "rm_done"
  /\ \/ /\ Emit("removedPlayer", task[t].gameCode, task[t].name)
        /\ task' = [task EXCEPT ![t].pc = "rm_status"]
     \/ /\ Emit("myError", task[t].sock, "Unexpected")
        /\ TaskDone(t)
  /\ UNCHANGED <<games, status, players, now, req, conn, rooms, reaper>>

SocketsOf(tasks, socks, codes) ==
  \E t \in tasks :
    \/ \E s \in socks, c \in codes, n \in Names, k \in Keys : RecvAuth(t, s, c, n, k)
    \/ AuthFind(t)
    \/ AuthUpdate(t)
    \/ BroadcastStatus(t)
    \/ \E s \in socks, n \in Names \cup {""} : RecvChangeName(t, s, n)
    \/ CnFind(t)
    \/ CnUpdate(t)
    \/ \E s \in socks, n \in Names, c \in codes \cup {Undefined} : RecvRemoval(t, s, n, c)
    \/ RmDelete(t)
    \/ RmFind(t)
    \/ RmDrop(t)
    \/ RmDeleteGame(t)
    \/ RmReturn(t)

Sockets(codes) == SocketsOf(Tasks, Socks, codes)

\* ---------------------------------------------------------- the sweep
\* part_001:296-297: the registry is listed; one status read per code listed
SweepList ==
  /\ Quiet
  /\ reaper.pc = "idle"
  /\ CanStart
  /\ \E c \in Codes : games[c] > 0
  /\ reaper' = [IdleReaper EXCEPT !.pc = "read", !.games = games,
                                  !.toRead = {c \in Codes : games[c] > 0}]
  /\ out' = NoOut
  /\ UNCHANGED <<games, status, players, now, req, task, conn, rooms>>

\* part_001:316-317
ShouldDie(doc, currentDate) ==
  doc = <<>> \/ currentDate - doc[1].lastSignificantChange > msToLive

\* part_001:313-324: with every status read, the drop commands are issued
SweepDecide(statuses) ==
  LET die == {c \in Codes : reaper.games[c] > 0 /\ ShouldDie(statuses[c], now)}
  IN  IF die = {}
      THEN IdleReaper
      ELSE [reaper EXCEPT !.pc = "drop", !.toRead = {}, !.statuses = statuses,
              !.currentDate = now,
              !.drops = [c \in Codes |-> IF c \in die THEN reaper.games[c] ELSE 0],
              !.dels = [c \in Codes |-> IF c \in die THEN reaper.games[c] ELSE 0]]

\* part_001:299-307: one status read resolves
SweepRead(c) ==
  /\ Quiet
  /\ reaper.pc = "read"
  /\ c \in reaper.toRead
  /\ LET statuses == [reaper.statuses EXCEPT ![c] =
                         IF status[c] = <<>> THEN <<>> ELSE <<status[c][1]>>]
     IN  reaper' = IF reaper.toRead = {c}
                   THEN SweepDecide(statuses)
                   ELSE [reaper EXCEPT !.toRead = @ \ {c}, !.statuses = statuses]
  /\ out' = NoOut
  /\ UNCHANGED <<games, status, players, now, req, task, conn, rooms>>

\* part_001:308-310 and 325-327: one status read rejects, Promise.all
\* rejects and the sweep's catch logs the error
SweepReadFail(c) ==
  /\ Quiet
  /\ reaper.pc = "read"
  /\ c \in reaper.toRead
  /\ reaper' = IdleReaper
  /\ out' = NoOut
  /\ UNCHANGED <<games, status, players, now, req, task, conn, rooms>>

SweepAdvance(r) ==
  IF (\A c \in Codes : r.drops[c] = 0 /\ r.dels[c] = 0) THEN IdleReaper ELSE r

\* part_001:319
SweepDrop(c) ==
  /\ Quiet
  /\ reaper.pc = "drop"
  /\ reaper.drops[c] > 0
  /\ status' = [status EXCEPT ![c] = <<>>]
  /\ players' = [players EXCEPT ![c] = <<>>]
  /\ reaper' = SweepAdvance([reaper EXCEPT !.drops[c] = @ - 1])
  /\ out' = NoOut
  /\ UNCHANGED <<games, now, req, task, conn, rooms>>

\* part_001:320
SweepDelete(c) ==
  /\ Quiet
  /\ reaper.pc = "drop"
  /\ reaper.dels[c] > 0
  /\ games' = DeleteGame(c)
  /\ reaper' = SweepAdvance([reaper EXCEPT !.dels[c] = @ - 1])
  /\ out' = NoOut
  /\ UNCHANGED <<status, players, now, req, task, conn, rooms>>

Sweep ==
  \/ SweepList
  \/ \E c \in Codes : SweepRead(c)
  \/ \E c \in Codes : SweepReadFail(c)
  \/ \E c \in Codes : SweepDrop(c)
  \/ \E c \in Codes : SweepDelete(c)

\* ------------------------------------------------------ specifications
\* the sessions of one code, with the socket handlers
OneCode == {minGameCode}

Next == Deliver \/ Requests({1}, OneCode, FewDocs) \/ Sockets(OneCode)

Spec == Init /\ [][Next]_vars

\* concurrent POST /join requests alone
NextJoin == Deliver \/ Requests(Reqs, Codes, MaxDocs)

SpecJoin == Init /\ [][NextJoin]_vars

\* one connection and one request at a time, with rounds starting
NextRound ==
  \/ Deliver
  \/ Requests({1}, OneCode, MaxDocs)
  \/ SocketsOf({1}, Socks, OneCode)
  \/ \E c \in OneCode : StartRound(c)

SpecRound == Init /\ [][NextRound]_vars

\* one connection and one request at a time, over every code
NextFrame ==
  \/ Deliver
  \/ Requests({1}, Codes, FewDocs)
  \/ SocketsOf({1}, {1}, Codes)

SpecFrame == Init /\ [][NextFrame]_vars

\* requests and the sweep, with the clock
NextSweep == Deliver \/ Tick \/ Requests(Reqs, Codes, FewDocs) \/ Sweep

SpecSweep == Init /\ [][NextSweep]_vars
\* ---------------------------------------------------------------- claims
Gone(c) == games[c] = 0 /\ status[c] = <<>> /\ players[c] = <<>>

AuthErrors == {"NoGame", "NotJoined", "Unauthorized"}

\* C1: no two Player records of one session have the same name.
NoDuplicateNames ==
  \A c \in Codes : \A i, j \in DOMAIN players[c] :
    i # j => players[c][i].name # players[c][j].name

\* C2: a session never holds more Player records than the capacity (10 in
\* the source, maxPlayers here).
RosterWithinCapacity == \A c \in Codes : Len(players[c]) <= maxPlayers

\* C3: the registry never contains two entries with the same code.
UniqueCodes == \A c \in Codes : games[c] <= 1

\* C4: an authRequest goes past the session lookup only for a registered
\* session and past the player lookup only for a Player of the given name,
\* whose hashedKey it reads; it then succeeds if and only if the digest of the
\* key supplied equals that hashedKey, and every failure is an auth error.
AuthCorrect ==
  [][\A t \in Tasks :
       /\ (task[t].pc = "idle" /\ task'[t].pc = "auth_find")
            => games[task'[t].gameCode] > 0
       /\ (task[t].pc = "auth_find" /\ task'[t].pc = "auth_update")
            => \E i \in DOMAIN players[task[t].gameCode] :
                 /\ players[task[t].gameCode][i].name = task[t].name
                 /\ players[task[t].gameCode][i].hashedKey = task'[t].hashedKey
       /\ (task[t].pc = "auth_find" /\ task'[t].pc = "idle")
            => /\ \A i \in DOMAIN players[task[t].gameCode] :
                    players[task[t].gameCode][i].name # task[t].name
               /\ out'.op = "myError" /\ out'.res \in AuthErrors
       /\ (task[t].pc = "auth_update" /\ task'[t].pc # "auth_update")
            => /\ task'[t].pc = "auth_status" <=> Hash(task[t].arg) = task[t].hashedKey
               /\ task'[t].pc = "auth_status" \/ (out'.op = "myError" /\ out'.res \in AuthErrors)
    ]_vars

\* C4 witness: an authRequest has succeeded with the key whose digest is stored.
AuthSucceeded ==
  \E t \in Tasks : /\ task[t].pc = "auth_status"
                    /\ Hash(task[t].arg) = task[t].hashedKey
                    /\ conn[task[t].sock].authenticated

\* C5: a step that answers an authRequest with an auth error changes no
\* Player record, no connection's authenticated flag or bound Player and no
\* room; a connection becomes authenticated, is bound to a Player or joins a
\* room only in the step in which an authRequest of that connection succeeds.
FailedAuthChangesNothing ==
  [][/\ (out'.op = "myError" /\ out'.res \in AuthErrors)
        => (players' = players /\ conn' = conn /\ rooms' = rooms)
     /\ \A s \in Socks :
          (conn'[s].authenticated # conn[s].authenticated
             \/ conn'[s].gameCode # conn[s].gameCode
             \/ rooms'[s] # rooms[s])
          => \E t \in Tasks :
               /\ task[t].pc = "auth_update" /\ task'[t].pc = "auth_status"
               /\ task[t].sock = s
               /\ Hash(task[t].arg) = task[t].hashedKey
    ]_vars

\* C5 witness: an authRequest for an existing Player was refused for its key.
AuthRefused == out.op = "myError" /\ out.res = "Unauthorized"

\* C6: after a successful authenticate by connection c as Player p, p's
\* stored connectionId equals c.
AuthBindsConnection ==
  [][\A t \in Tasks :
       (task[t].pc = "auth_update" /\ task'[t].pc = "auth_status")
       => \E i \in DOMAIN players'[task[t].gameCode] :
            /\ players'[task[t].gameCode][i].name = task[t].name
            /\ players'[task[t].gameCode][i].socketClientId = task[t].sock
    ]_vars

\* C7: when a removalRequest with payload {name} has removed the last Player
\* of a session and its destroy has run, the session's status, players and
\* registry entry are gone.
LastRemovalDestroysSession ==
  [][\A t \in Tasks :
       (/\ task[t].pc = "rm_destroy" /\ task'[t].pc = "rm_done"
        /\ task[t].code2 = Undefined)
       => Gone(task[t].gameCode)'
    ]_vars

Expired(doc, date) == doc = <<>> \/ doc[1].lastSignificantChange < date - msToLive

SweepDate == IF reaper.pc = "drop" THEN reaper.currentDate ELSE now

\* C8: when a sweep ends, every session it listed and read whose status is
\* missing or older than now - TTL is gone, and the step leaves every other
\* listed session as it was.
SweepDeletesExpired ==
  [][(reaper.pc # "idle" /\ reaper'.pc = "idle")
     => \A c \in Codes :
          (reaper.games[c] > 0 /\ c \notin reaper.toRead)
          => IF Expired(reaper.statuses[c], SweepDate)
             THEN Gone(c)'
             ELSE /\ status'[c] = status[c]
                  /\ players'[c] = players[c]
                  /\ games'[c] = games[c]
    ]_vars

\* C9: a sweep in which one status read fails still deletes every other
\* session it listed that is expired.
SweepIsolatesFailure ==
  [][(reaper.pc = "read" /\ reaper'.pc = "idle")
     => \A c \in Codes :
          (reaper.games[c] > 0 /\ c \notin reaper.toRead
             /\ Expired(reaper.statuses[c], now))
          => (games'[c] = 0 /\ status'[c] = <<>>)
    ]_vars

\* C10: when the destroy of a session (dropDatabase and the registry delete)
\* has run, it has raised no error and no status, player or registry record
\* of that code remains.
DestroyLeavesNoResidue ==
  [][\A t \in Tasks :
       (task[t].pc = "rm_destroy" /\ task'[t].pc = "rm_done")
       => (out'.op # "myError" /\ Gone(task[t].gameCode)')
    ]_vars

RemovalKicksAndNotifies ==
  [][\A t \in Tasks :
       (task[t].pc = "rm_done" /\ task'[t].pc # "rm_done")
       => /\ out'.op = "removedPlayer"
          /\ \A s \in Socks :
               (/\ conn[s].authenticated
                /\ conn[s].gameCode = task[t].gameCode
                /\ conn[s].name = task[t].name)
               => task[t].gameCode \notin rooms'[s]
    ]_vars

\* C13: gameStatus is emitted only when the status read for it has
\* playing = FALSE, and it then carries the roster.
StatusOnlyWhenNotPlaying ==
  [][out'.op = "gameStatus"
     => /\ status[out'.to] # <<>>
        /\ status[out'.to][1].playing = FALSE
        /\ out'.res = "roster"
    ]_vars

\* the joinGame call of request r for name n and code c reads the store in
\* this step
JoinReads(r, n, c) ==
  \/ \E d \in {FewDocs, MaxDocs} : ReqJoin(r, n, c, d)
  \/ JoinCreated(r) /\ req[r].name = n /\ req[r].gameCode = c

\* C14: joinGame goes on to its insert only for a registered session whose
\* status has playing = FALSE; for an unregistered code it answers with the
\* not-found error and for a registered session with playing # FALSE with the
\* in-progress error, and in both cases no store record changes and the
\* request ends.
JoinOnlyWhenNotPlaying ==
  [][\A r \in Reqs, n \in Names, c \in Codes :
       JoinReads(r, n, c)
       => /\ req'[r].pc = "join_insert"
               => (games[c] > 0 /\ status[c] # <<>> /\ status[c][1].playing = FALSE)
          /\ games[c] = 0
               => /\ out' = [op |-> "join", to |-> r, res |-> "NoGame"]
                  /\ req'[r] = IdleReq
                  /\ UNCHANGED <<games, status, players>>
          /\ (games[c] > 0 /\ status[c] # <<>> /\ status[c][1].playing # FALSE)
               => /\ out' = [op |-> "join", to |-> r, res |-> "InProgress"]
                  /\ req'[r] = IdleReq
                  /\ UNCHANGED <<games, status, players>>
    ]_vars

\* C14 witness: a join to a registered session with a round in progress was
\* refused, the roster being as it was.
JoinRefusedInProgress ==
  /\ out.op = "join" /\ out.res = "InProgress"
  /\ \E c \in Codes : games[c] > 0 /\ status[c] # <<>> /\ status[c][1].playing

\* the step answers connection s with myError e and nothing else: no store
\* record, connection or room changes and no handler goes on
Fails(s, e) ==
  /\ out' = [op |-> "myError", to |-> s, res |-> e]
  /\ UNCHANGED <<games, status, players, conn, rooms>>
  /\ \A t \in Tasks : task'[t] = task[t] \/ task'[t] = IdleTask

\* C15: a changeName of an authenticated connection to its current name
\* fails with the same-name error, to the empty string with the blank-name
\* error, while playing with the in-progress error, and for a Player no
\* longer in the roster with the player-missing error; each failure answers
\* the requester alone and changes neither the roster nor the bound name.
ChangeNameFailures ==
  [][/\ \A t \in Tasks, s \in Socks, n \in Names \cup {""} :
          (conn[s].authenticated /\ RecvChangeName(t, s, n))
          => /\ n = conn[s].name => Fails(s, "SameName")
             /\ (n # conn[s].name /\ n = "") => Fails(s, "BlankName")
             /\ (/\ n # conn[s].name /\ n # ""
                 /\ status[conn[s].gameCode] # <<>>
                 /\ status[conn[s].gameCode][1].playing)
                => Fails(s, "InProgress")
     /\ \A t \in Tasks :
          (/\ CnFind(t)
           /\ \A i \in DOMAIN players[task[t].gameCode] :
                players[task[t].gameCode][i].name # task[t].name)
          => Fails(task[t].sock, "PlayerMissing")
    ]_vars

\* C15 witness: a changeName was refused because the connection's Player had
\* left the roster.
ChangeNameRefused ==
  /\ out.op = "myError" /\ out.res = "PlayerMissing"
  /\ conn[out.to].authenticated

\* an event of connection s begins to be handled in this step
Received(s) ==
  \E t \in Tasks :
    \/ \E c \in Codes, n \in Names, k \in Keys : RecvAuth(t, s, c, n, k)
    \/ \E n \in Names \cup {""} : RecvChangeName(t, s, n)
    \/ \E n \in Names, c \in Codes \cup {Undefined} : RecvRemoval(t, s, n, c)

\* C16: the handling of an event of a connection begins only when no earlier
\* event of that connection is still being handled.
EventsInArrivalOrder ==
  [][\A s \in Socks :
       Received(s) => \A u \in Tasks : task[u].pc # "idle" => task[u].sock # s
    ]_vars

\* C17: a code has a registry entry exactly if it has a status document,
\* and it has at most one status document.
RegistryMatchesStatus ==
  \A c \in Codes : /\ games[c] > 0 <=> status[c] # <<>>
                    /\ Len(status[c]) <= 1

\* C18: when a join returns credentials, the session it joined is registered
\* and has its status, so that the new Player belongs to a session.
JoinedSessionExists ==
  [][\A r \in Reqs :
       (req[r].pc = "join_insert" /\ req'[r].pc = "idle" /\ out'.res = "ok")
       => /\ games'[req[r].gameCode] > 0
          /\ status'[req[r].gameCode] # <<>>
    ]_vars

\* C19: a step of a removalRequest handler changes no registry, status or
\* player record of a session other than the one its connection is
\* authenticated into.
RemovalTouchesOwnSession ==
  [][\A t \in Tasks :
       (task[t].kind = "removalRequest" /\ task'[t] # task[t])
       => \A c \in Codes \ {task[t].gameCode} :
            /\ games'[c] = games[c]
            /\ status'[c] = status[c]
            /\ players'[c] = players[c]
    ]_vars

\* C20: the order values of the Players of one session are pairwise
\* distinct.
DistinctOrders ==
  \A c \in Codes : \A i, j \in DOMAIN players[c] :
    i # j => players[c][i].order # players[c][j].order
====
